---------------------------- MODULE Spec2Model ----------------------------
(***************************************************************************)
(* Model of src/fetchMoexData.js: the MOEX history loader                  *)
(* (fetchMoexData, workDaysGenerator, divideBigInt, loadData,              *)
(* computeAverageVolume, computeHotStocks) and the single-slot cache of    *)
(* getHotStocks.                                                           *)
(*                                                                         *)
(* Six specifications share the module:                                    *)
(*   Spec      getHotStocks invocations interleaved at their await points, *)
(*             the remote endpoint answering each request with a failure,  *)
(*             a malformed page or the single page of the date;            *)
(*   SpecLoad  a single getHotStocks invocation from the empty cache, the  *)
(*             pages drawn from a larger set (several rows, every cursor,  *)
(*             every missing column);                                      *)
(*   SpecGen   workDaysGenerator pulled value by value, for every start    *)
(*             date of a range of years and every daysBack;                *)
(*   SpecCalc  computeAverageVolume / computeHotStocks applied to every    *)
(*             small WindowDataset;                                        *)
(*   SpecRatio divideBigInt applied to small and to large BigInts, and to  *)
(*             their multiples;                                            *)
(*   SpecSource one getHotStocks invocation against an endpoint that always *)
(*             answers, with the offset asked for as INDEX and a TOTAL and *)
(*             a PAGESIZE fixed per date; its steps are weakly fair.       *)
(***************************************************************************)
EXTENDS Integers, Sequences, FiniteSets, TLC

VARIABLES
    today,           \* the calendar day new Date() gives (local fields)
    cacheImoexData,  \* the module-level Map: cacheKey -> hotStocks
    pc,              \* per invocation: where getHotStocks is suspended
    daysBack,        \* per invocation: the argument of getHotStocks
    cacheKey,        \* per invocation: the key computed at entry
    dates,           \* per invocation: state of the workDaysGenerator object
    date,            \* per invocation: loop variable of `for (const date of dates)`
    page,            \* per invocation: loop variable `page` of loadData
    imoexData,       \* per invocation: the Map date -> Map secId -> record
    out,             \* per invocation: what the last getHotStocks call returned
    reqs,            \* per invocation: fetch() calls issued by the current call
    failed,          \* per invocation: fetchMoexData calls of this call that threw
    raced,           \* per invocation: another call was loading while this one was
    hit,             \* per invocation: the current call found its key in the cache
    fetched,         \* per invocation: `a`, the page last returned by fetchMoexData
    requests,        \* per invocation: the (date, start) of every fetch() it issued
    outstanding,     \* per invocation: the requests issued and not yet answered
    rowLog,          \* per invocation: the rows loadData read, in the order read
    completed,       \* the cache key of the last call that returned a mapping
    gen,             \* SpecGen: one workDaysGenerator object and what it has yielded
    calc,            \* SpecCalc: one WindowDataset and the maps computed from it
    ratioCall,       \* SpecRatio: the arguments of divideBigInt and what it returned
    source           \* SpecSource: TOTAL and PAGESIZE the endpoint reports, per date

mainVars == <<today, cacheImoexData, pc, daysBack, cacheKey, dates, date, page,
              imoexData, out, reqs, failed, hit, fetched, raced, requests,
              outstanding, rowLog, completed>>
vars == <<mainVars, gen, calc, ratioCall, source>>

-----------------------------------------------------------------------------
(* Bounds of the model.                                                    *)

MaxProc == 2        \* getHotStocks invocations that can be in flight together
MaxDaysBack == 1    \* daysBack ranges over 0..MaxDaysBack in Spec
MaxReqs == 3        \* requests one invocation may issue before the model stops it
MaxTicks == 1       \* midnights that may pass in Spec
GenMaxDaysBack == 6 \* daysBack ranges over 0..GenMaxDaysBack in SpecGen
GenYears == 1       \* start dates range over FirstYear..FirstYear+GenYears

MaxRows == 2        \* rows of one page in SpecLoad
CalcDays == 2       \* days of the WindowDataset of SpecCalc
MaxNumerator == 150 \* small numerators of SpecRatio are 0..MaxNumerator
MaxOffset == 20     \* large numerators of SpecRatio are 5 * 2^50 -+ 0..MaxOffset
MaxDenominator == 3 \* denominators of SpecRatio are 1..MaxDenominator and 100
MaxScale == 3       \* scale factors of SpecRatio are 1..MaxScale
MaxTotal == 3       \* TOTAL of a date ranges over 0..MaxTotal in SpecSource
MaxPageSize == 2    \* PAGESIZE of a date ranges over 0..MaxPageSize in SpecSource

FirstYear == 2023   \* first year of the start dates of SpecGen (2024 is a leap year)

-----------------------------------------------------------------------------
(* Calendar: a JS Date reduced to its local fields, month 0-based as       *)
(* getMonth() gives it.                                                    *)

IsLeap(y) == (y % 4 = 0 /\ y % 100 # 0) \/ y % 400 = 0

DaysInMonth(y, m) ==
    IF m = 1 THEN (IF IsLeap(y) THEN 29 ELSE 28)
    ELSE IF m \in {3, 5, 8, 10} THEN 30 ELSE 31

LeapsBefore(y) == ((y - 1) \div 4) - ((y - 1) \div 100) + ((y - 1) \div 400)

RECURSIVE DaysBeforeMonth(_, _)
DaysBeforeMonth(y, m) ==
    IF m = 0 THEN 0 ELSE DaysBeforeMonth(y, m - 1) + DaysInMonth(y, m - 1)

\* Days since 1970-01-01 of a local date.
DayNumber(d) ==
    365 * (d.year - 1970) + (LeapsBefore(d.year) - LeapsBefore(1970))
        + DaysBeforeMonth(d.year, d.month) + (d.day - 1)

\* Date.prototype.getDay: 0 = Sunday .. 6 = Saturday (1970-01-01 was a Thursday).
getDay(d) == (DayNumber(d) + 4) % 7

\* date.setDate(current.getDate() - 1): day 0 rolls over to the last day of
\* the previous month, month -1 to December of the previous year.
setDateMinusOne(d) ==
    IF d.day > 1 THEN [d EXCEPT !.day = d.day - 1]
    ELSE IF d.month > 0
         THEN [year |-> d.year, month |-> d.month - 1,
               day |-> DaysInMonth(d.year, d.month - 1)]
         ELSE [year |-> d.year - 1, month |-> 11, day |-> 31]

\* The next calendar day (the clock of Spec passing midnight).
nextDay(d) ==
    IF d.day < DaysInMonth(d.year, d.month) THEN [d EXCEPT !.day = d.day + 1]
    ELSE IF d.month < 11 THEN [year |-> d.year, month |-> d.month + 1, day |-> 1]
         ELSE [year |-> d.year + 1, month |-> 0, day |-> 1]

\* formatDate: `${year}-${month}-${day}` with month = getMonth() + 1, month and
\* day padded to two digits.  The string is kept as its three numeric fields.
formatDate(d) == <<d.year, d.month + 1, d.day>>

\* Order of two formatted dates (the order of the padded strings).
DateBefore(a, b) ==
    \/ a[1] < b[1]
    \/ a[1] = b[1] /\ a[2] < b[2]
    \/ a[1] = b[1] /\ a[2] = b[2] /\ a[3] < b[3]

\* Calendar date a formatted date stands for.
ParseDate(s) == [year |-> s[1], month |-> s[2] - 1, day |-> s[3]]

IsWeekend(s) == getDay(ParseDate(s)) \in {0, 6}

-----------------------------------------------------------------------------
(* workDaysGenerator: the generator object is [current, i, daysBack, done]. *)
(* One call of next() runs the loop up to the next yield or to the end.    *)

workDaysGeneratorSkipSunday(g) == getDay(g.current) = 6

\* The `continue` test of the loop, on the date just stepped to.
workDaysGeneratorSkip(g) == getDay(g.current) = 0 \/ getDay(g.current) = 6

workDaysGenerator(db, startDate) ==
    [current |-> startDate, i |-> 0, daysBack |-> db, done |-> FALSE,
     value |-> <<>>]

RECURSIVE generatorNext(_)
generatorNext(g) ==
    IF ~(g.i <= g.daysBack) THEN [g EXCEPT !.done = TRUE, !.value = <<>>]
    ELSE LET stepped == [g EXCEPT !.current = setDateMinusOne(g.current)]
         IN IF workDaysGeneratorSkip(stepped) THEN generatorNext(stepped)
            ELSE [stepped EXCEPT !.i = g.i + 1,
                                 !.value = formatDate(stepped.current)]

-----------------------------------------------------------------------------
(* A JS Map is the sequence of its <<key, value>> entries in insertion     *)
(* order; Map.prototype.set on a key already present keeps its position.   *)

MapKeys(m) == {m[k][1] : k \in 1..Len(m)}

MapHas(m, key) == key \in MapKeys(m)

MapGet(m, key) == m[CHOOSE k \in 1..Len(m) : m[k][1] = key][2]

\* A set that deletes the key and appends it: the key moves to the end.
MapSetMovesKey(m, key, value) ==
    Append(SelectSeq(m, LAMBDA entry : entry[1] # key), <<key, value>>)

MapSet(m, key, value) ==
    IF MapHas(m, key)
    THEN [k \in 1..Len(m) |-> IF m[k][1] = key THEN <<key, value>> ELSE m[k]]
    ELSE Append(m, <<key, value>>)

-----------------------------------------------------------------------------
(* BigInt: an arbitrary-precision natural is the sequence of its limbs in  *)
(* base 2^15, least significant first, without leading zero limbs.         *)

Base == 2^15

\* BigInt(n) of a Number that holds a natural.
RECURSIVE BigInt(_)
BigInt(n) == IF n = 0 THEN <<>> ELSE <<n % Base>> \o BigInt(n \div Base)

\* Number(x) of a BigInt small enough for the integers of the model.
RECURSIVE NumberOfSmall(_)
NumberOfSmall(x) ==
    IF x = <<>> THEN 0 ELSE Head(x) + Base * NumberOfSmall(Tail(x))

RECURSIVE BigTrim(_)
BigTrim(x) ==
    IF x = <<>> \/ x[Len(x)] # 0 THEN x ELSE BigTrim(SubSeq(x, 1, Len(x) - 1))

\* -1, 0 or 1 as x < y, x = y or x > y.
RECURSIVE BigCmpFrom(_, _, _)
BigCmpFrom(x, y, k) ==
    IF k = 0 THEN 0
    ELSE IF x[k] < y[k] THEN -1
    ELSE IF x[k] > y[k] THEN 1
    ELSE BigCmpFrom(x, y, k - 1)

BigCmp(x, y) ==
    IF Len(x) < Len(y) THEN -1
    ELSE IF Len(x) > Len(y) THEN 1
    ELSE BigCmpFrom(x, y, Len(x))

BigLimb(x, k) == IF k <= Len(x) THEN x[k] ELSE 0

RECURSIVE BigAddFrom(_, _, _, _)
BigAddFrom(x, y, k, carry) ==
    IF k > Len(x) /\ k > Len(y)
    THEN (IF carry = 0 THEN <<>> ELSE <<carry>>)
    ELSE LET t == BigLimb(x, k) + BigLimb(y, k) + carry
         IN <<t % Base>> \o BigAddFrom(x, y, k + 1, t \div Base)

\* x + y
BigAdd(x, y) == BigAddFrom(x, y, 1, 0)

RECURSIVE BigSubFrom(_, _, _, _)
BigSubFrom(x, y, k, borrow) ==
    IF k > Len(x) THEN <<>>
    ELSE LET t == x[k] - BigLimb(y, k) - borrow
         IN IF t < 0 THEN <<t + Base>> \o BigSubFrom(x, y, k + 1, 1)
            ELSE <<t>> \o BigSubFrom(x, y, k + 1, 0)

\* x - y, for x >= y
BigSub(x, y) == BigTrim(BigSubFrom(x, y, 1, 0))

RECURSIVE BigMulFrom(_, _, _, _)
BigMulFrom(x, s, k, carry) ==
    IF k > Len(x) THEN BigInt(carry)
    ELSE LET t == x[k] * s + carry
         IN <<t % Base>> \o BigMulFrom(x, s, k + 1, t \div Base)

\* x * s for a multiplier s of one limb.
BigMulSmall(x, s) == IF s = 0 THEN <<>> ELSE BigMulFrom(x, s, 1, 0)

\* x * 2^n
BigShiftLeft(x, n) ==
    IF x = <<>> THEN <<>>
    ELSE [k \in 1..(n \div 15) |-> 0] \o BigMulSmall(x, 2^(n % 15))

\* 2^n
BigPow2(n) == BigShiftLeft(<<1>>, n)

\* The largest digit d in lo..hi with d * y <= r (lo is such a digit).
RECURSIVE BigDigit(_, _, _, _)
BigDigit(r, y, lo, hi) ==
    IF lo = hi THEN lo
    ELSE LET mid == (lo + hi + 1) \div 2
         IN IF BigCmp(BigMulSmall(y, mid), r) <= 0
            THEN BigDigit(r, y, mid, hi)
            ELSE BigDigit(r, y, lo, mid - 1)

\* Long division, from the most significant limb of x down to limb 1.
RECURSIVE BigDivFrom(_, _, _, _, _)
BigDivFrom(x, y, k, quot, rem) ==
    IF k = 0 THEN [quot |-> BigTrim(quot), rem |-> rem]
    ELSE LET r == BigTrim(<<x[k]>> \o rem)
             d == BigDigit(r, y, 0, Base - 1)
         IN BigDivFrom(x, y, k - 1, <<d>> \o quot, BigSub(r, BigMulSmall(y, d)))

\* Division by a divisor s of one limb, from the most significant limb of x
\* down to limb 1: rem is a number below s.
RECURSIVE BigDivSmallFrom(_, _, _, _, _)
BigDivSmallFrom(x, s, k, quot, rem) ==
    IF k = 0 THEN [quot |-> BigTrim(quot), rem |-> BigInt(rem)]
    ELSE LET t == rem * Base + x[k]
         IN BigDivSmallFrom(x, s, k - 1, <<t \div s>> \o quot, t % s)

\* x / y and x % y of BigInts, y > 0: the quotient truncated.
BigDivMod(x, y) ==
    IF Len(y) = 1 THEN BigDivSmallFrom(x, y[1], Len(x), <<>>, 0)
    ELSE BigDivFrom(x, y, Len(x), <<>>, <<>>)

BigDiv(x, y) == BigDivMod(x, y).quot

RECURSIVE BitsOfLimb(_)
BitsOfLimb(v) == IF v = 0 THEN 0 ELSE 1 + BitsOfLimb(v \div 2)

\* The number of bits of x: the least n with x < 2^n.
BigBits(x) == IF x = <<>> THEN 0 ELSE 15 * (Len(x) - 1) + BitsOfLimb(x[Len(x)])

BigIsOdd(x) == x # <<>> /\ x[1] % 2 = 1

\* floor(x / 2^n)
BigShiftRight(x, n) ==
    IF Len(x) <= n \div 15 THEN <<>>
    ELSE BigDiv(SubSeq(x, (n \div 15) + 1, Len(x)), <<2^(n % 15)>>)

-----------------------------------------------------------------------------
(* Number: a non-negative IEEE 754 double is 0 or [m, e], the value        *)
(* m * 2^e with 2^52 <= m < 2^53.  Every operation gives the double        *)
(* nearest to the exact result, a tie going to the even mantissa.          *)

DoubleZero == [m |-> <<>>, e |-> 0]

\* The double nearest to (n / d) * 2^e, for BigInts n and d > 0.
RoundToDouble(n, d, e) ==
    IF n = <<>> THEN DoubleZero
    ELSE LET have == BigBits(n) - BigBits(d)
             s == IF have >= 55 THEN 0 ELSE 55 - have
             dm == BigDivMod(BigShiftLeft(n, s), d)
             k == BigBits(dm.quot) - 53
             kept == BigShiftRight(dm.quot, k)
             dropped == BigSub(dm.quot, BigShiftLeft(kept, k))
             c == BigCmp(dropped, BigPow2(k - 1))
             up == \/ c > 0
                   \/ c = 0 /\ (dm.rem # <<>> \/ BigIsOdd(kept))
             m == IF up THEN BigAdd(kept, <<1>>) ELSE kept
         IN IF BigBits(m) = 54
            THEN [m |-> BigPow2(52), e |-> e - s + k + 1]
            ELSE [m |-> m, e |-> e - s + k]

\* Number(q) of a BigInt
NumberOf(q) == RoundToDouble(q, <<1>>, 0)

\* x / c and x * c for a double x and a small integer c
DoubleDiv(x, c) == RoundToDouble(x.m, BigInt(c), x.e)
DoubleMul(x, c) == RoundToDouble(BigMulSmall(x.m, c), <<1>>, x.e)

\* Math.floor(x), x >= 0.
MathFloor(x) ==
    IF x.m = <<>> THEN <<>>
    ELSE IF x.e >= 0 THEN BigShiftLeft(x.m, x.e)
    ELSE BigShiftRight(x.m, -x.e)

\* Math.round(x), x >= 0: floor(x + 0.5), exactly; the integer as a BigInt.
MathRound(x) ==
    IF x.m = <<>> THEN <<>>
    ELSE IF x.e >= 0 THEN BigShiftLeft(x.m, x.e)
    ELSE BigShiftRight(BigAdd(BigMulSmall(x.m, 2), BigPow2(-x.e)), 1 - x.e)

-----------------------------------------------------------------------------
(* divideBigInt.  The value returned is Math.round(result * 10) / 10, a    *)
(* double; the model returns the integer Math.round(result * 10), which is *)
(* the ratio in tenths: 16 stands for 1.6.                                 *)

\* The quotient with the denominator kept away from 0.
scaledQuotientGuarded(a, b) == BigDiv(BigMulSmall(a, 100), BigAdd(b, <<1>>))

\* (a * 100n) / b
scaledQuotient(a, b) == BigDiv(BigMulSmall(a, 100), b)

\* Each intermediate value is computed once and bound, as in the code: q the
\* BigInt quotient, number = Number(q), result = number / 100, scaled =
\* result * 10.
divideBigInt(a, b) ==
    CHOOSE rounded \in
        {MathRound(scaled) :
            scaled \in {DoubleMul(result, 10) :
                result \in {DoubleDiv(number, 100) :
                    number \in {NumberOf(q) : q \in {scaledQuotient(a, b)}}}}} : TRUE

-----------------------------------------------------------------------------
(* computeAverageVolume                                                    *)

\* The first loop nest, one (date, secId) at a time: create the entry when
\* absent, then add the volume and count the appearance.
accumulateSum(averageVolume, stockData) ==
    averageVolume.totalVolume + stockData.volume

RECURSIVE accumulateDay(_, _, _)
accumulateDay(averageVolume, dayData, k) ==
    IF k > Len(dayData) THEN averageVolume
    ELSE LET secId == dayData[k][1]
             stockData == dayData[k][2]
             created == IF MapHas(averageVolume, secId) THEN averageVolume
                        ELSE MapSet(averageVolume, secId,
                                    [totalVolume |-> 0, count |-> 0])
             current == MapGet(created, secId)
             updated == [totalVolume |-> accumulateSum(current, stockData),
                         count |-> current.count + 1]
         IN accumulateDay(MapSet(created, secId, updated), dayData, k + 1)

RECURSIVE accumulateWindow(_, _, _)
accumulateWindow(averageVolume, data, k) ==
    IF k > Len(data) THEN averageVolume
    ELSE accumulateWindow(accumulateDay(averageVolume, data[k][2], 1), data, k + 1)

averageOfCeil(data) == (data.totalVolume + data.count - 1) \div data.count

\* data.average = data.totalVolume / BigInt(data.count)
averageOf(data) == data.totalVolume \div data.count

computeAverageVolume(data) ==
    LET sums == accumulateWindow(<<>>, data, 1)
    IN [k \in 1..Len(sums) |->
          <<sums[k][1], [totalVolume |-> sums[k][2].totalVolume,
                         count |-> sums[k][2].count,
                         average |-> averageOf(sums[k][2])]>>]

-----------------------------------------------------------------------------
(* computeHotStocks                                                        *)

\* The two `continue` tests: no average known, or an average of 0.
hotStockSkipped(averageVolume, secId) ==
    \/ ~MapHas(averageVolume, secId)
    \/ MapGet(averageVolume, secId).average = 0

\* Math.trunc(stockData.turnover / 1e6)
turnoverMillions(stockData) == stockData.turnover \div 1000000

\* if (!hotStocks.has(date)) hotStocks.set(date, []);
\* hotStocks.get(date).push(entry)
hotStockPushed(hotStocks, dateKey, entry) ==
    LET created == IF MapHas(hotStocks, dateKey) THEN hotStocks
                   ELSE MapSet(hotStocks, dateKey, <<>>)
    IN MapSet(created, dateKey, Append(MapGet(created, dateKey), entry))

\* The body of the inner loop; `ratio` is computed once for the security.
\* `threshold` is the inclusion test
\* `ratio >= threshold` of the earlier revision (src/unnamed/part_000:135);
\* src/fetchMoexData.js has no such test, which is a threshold of 0.
RECURSIVE hotStocksDay(_, _, _, _, _, _)
hotStocksDay(hotStocks, dateKey, dayData, averageVolume, threshold, k) ==
    IF k > Len(dayData) THEN hotStocks
    ELSE IF hotStockSkipped(averageVolume, dayData[k][1])
    THEN hotStocksDay(hotStocks, dateKey, dayData, averageVolume, threshold, k + 1)
    ELSE CHOOSE after \in
             {IF ~(ratio >= threshold)
              THEN hotStocksDay(hotStocks, dateKey, dayData, averageVolume,
                                threshold, k + 1)
              ELSE hotStocksDay(
                       hotStockPushed(hotStocks, dateKey,
                                      [secId |-> dayData[k][1], ratio |-> ratio,
                                       turnover |-> turnoverMillions(dayData[k][2])]),
                       dateKey, dayData, averageVolume, threshold, k + 1) :
                 ratio \in {NumberOfSmall(
                               divideBigInt(
                                   BigInt(dayData[k][2].volume),
                                   BigInt(MapGet(averageVolume,
                                                 dayData[k][1]).average)))}} : TRUE

RECURSIVE hotStocksWindow(_, _, _, _, _)
hotStocksWindow(hotStocks, data, averageVolume, threshold, k) ==
    IF k > Len(data) THEN hotStocks
    ELSE hotStocksWindow(
             hotStocksDay(hotStocks, data[k][1], data[k][2], averageVolume,
                          threshold, 1),
             data, averageVolume, threshold, k + 1)

\* threshold = 1.5, the default of the earlier revision, in tenths.
DefaultThreshold == 15

\* computeHotStocks of the earlier revision, called with its default threshold.
computeHotStocksThreshold(data, averageVolume) ==
    hotStocksWindow(<<>>, data, averageVolume, DefaultThreshold, 1)

\* Every date of the dataset given a list, empty or not.
computeHotStocksAllDates(data, averageVolume) ==
    LET hotStocks == hotStocksWindow(<<>>, data, averageVolume, 0, 1)
    IN [k \in 1..Len(data) |->
           <<data[k][1],
             IF MapHas(hotStocks, data[k][1]) THEN MapGet(hotStocks, data[k][1])
             ELSE <<>>>>]

\* for each date, for each security of the date: skip it, or push its entry
\* on the list of the date, created at the first push.
computeHotStocks(data, averageVolume) ==
    hotStocksWindow(<<>>, data, averageVolume, 0, 1)

\* The loop at the end of getHotStocks: the Map copied into a plain object.
toObject(hotStocks) == [d \in MapKeys(hotStocks) |-> MapGet(hotStocks, d)]

-----------------------------------------------------------------------------
(* Values the remote endpoint may send.                                    *)

SecIds == {"AAA", "BBB"}
Volumes == {0, 1, 100, 300, 400}
Closes == {20000}

\* What loadData stores for one row: BigInt(VOLUME) and VOLUME * CLOSE.
stockRecord(volume, close) == [volume |-> volume, turnover |-> volume * close]

\* Every DaySnapshot over the given securities and volumes.
DayMapsOfLen(secs, vols, n) ==
    { [k \in 1..n |-> <<ids[k], stockRecord(vs[k][1], vs[k][2])>>] :
        ids \in {q \in [1..n -> secs] : \A a, b \in 1..n : a # b => q[a] # q[b]},
        vs \in [1..n -> vols \X Closes] }

DayMaps(secs, vols) ==
    UNION {DayMapsOfLen(secs, vols, n) : n \in 0..Cardinality(secs)}

-----------------------------------------------------------------------------
(* Pages.  A page is what response.json() gives: the history table and the *)
(* history.cursor table, each with the set of its column names (indexOf    *)
(* only tells present from absent), the rows as records, and data[0] of    *)
(* the cursor.                                                             *)

HistoryColumns == {"SECID", "VOLUME", "TRADEDATE", "CLOSE"}
CursorColumns == {"INDEX", "TOTAL", "PAGESIZE"}

Page(columns, rows, cursorColumns, cursorRow) ==
    [history |-> [columns |-> columns, data |-> rows],
     cursor |-> [columns |-> cursorColumns, data |-> cursorRow]]

NoPage == Page({}, <<>>, {}, [INDEX |-> 0, TOTAL |-> 0, PAGESIZE |-> 0])

Rows(secs, vols) == [SECID : secs, VOLUME : vols, CLOSE : Closes]

RowSeqs(secs, vols, n) == UNION {[1..k -> Rows(secs, vols)] : k \in 0..n}

LastCursor == [INDEX |-> 4, TOTAL |-> 5, PAGESIZE |-> 2]

\* Pages lacking one required column.
MalformedPages(histMissing, cursorMissing) ==
    {Page(HistoryColumns \ {c}, <<>>, CursorColumns, LastCursor) : c \in histMissing}
    \cup {Page(HistoryColumns,
               <<[SECID |-> "AAA", VOLUME |-> 100, CLOSE |-> 20000]>>,
               CursorColumns \ {c}, LastCursor) : c \in cursorMissing}

\* Pages of Spec: every date fits one page, of no row or one row of one
\* security; or CLOSE is missing, or TOTAL of the cursor.
SmallPages ==
    {Page(HistoryColumns, rows, CursorColumns, LastCursor) :
        rows \in RowSeqs({"AAA"}, {100}, 1)}
    \cup MalformedPages({"CLOSE"}, {"TOTAL"})

\* Pages of SpecLoad.
LoadVolumes == {0, 100}
LoadCursors == [INDEX : {0, 2, 4}, TOTAL : {5}, PAGESIZE : {0, 2}]
LoadPages ==
    {Page(HistoryColumns, rows, CursorColumns, cur) :
        rows \in RowSeqs(SecIds, LoadVolumes, MaxRows), cur \in LoadCursors}
    \cup MalformedPages(HistoryColumns, CursorColumns)

-----------------------------------------------------------------------------
(* loadData, one await at a time.                                          *)

Procs == 1..MaxProc

Today0 == [year |-> 2024, month |-> 2, day |-> 4]    \* Monday 2024-03-04

\* The four indexOf tests on a.history.columns.
historyColumnsFoundAny(page_) ==
    \E c \in {"SECID", "VOLUME", "TRADEDATE", "CLOSE"} : c \in page_.history.columns

historyColumnsFound(page_) ==
    /\ "SECID" \in page_.history.columns
    /\ "VOLUME" \in page_.history.columns
    /\ "TRADEDATE" \in page_.history.columns
    /\ "CLOSE" \in page_.history.columns

\* The three indexOf tests on the cursor's columns.
cursorColumnsFound(page_) ==
    /\ "INDEX" \in page_.cursor.columns
    /\ "TOTAL" \in page_.cursor.columns
    /\ "PAGESIZE" \in page_.cursor.columns

\* The rows loop setting only the SECIDs the DaySnapshot does not have yet.
RECURSIVE mergeRowsKeepFirst(_, _, _)
mergeRowsKeepFirst(imoexDay, data, k) ==
    IF k > Len(data) THEN imoexDay
    ELSE mergeRowsKeepFirst(
             IF MapHas(imoexDay, data[k].SECID) THEN imoexDay
             ELSE MapSet(imoexDay, data[k].SECID,
                         stockRecord(data[k].VOLUME, data[k].CLOSE)),
             data, k + 1)

\* for (i ...) imoexDay.set(data[i][idxName], {volume, turnover})
RECURSIVE mergeRows(_, _, _)
mergeRows(imoexDay, data, k) ==
    IF k > Len(data) THEN imoexDay
    ELSE mergeRows(MapSet(imoexDay, data[k].SECID,
                          stockRecord(data[k].VOLUME, data[k].CLOSE)),
                   data, k + 1)

lastPageByOffset(offset, cur) == offset + cur.PAGESIZE >= cur.TOTAL

lastPageStrict(offset, cur) == cur.INDEX + cur.PAGESIZE > cur.TOTAL

\* pageIndex + pageSize >= pageTotal
lastPage(offset, cur) == cur.INDEX + cur.PAGESIZE >= cur.TOTAL

NoResult == [returned |-> FALSE, value |-> <<>>]
NoGenerator == workDaysGenerator(0, Today0)

\* The locals of a getHotStocks call that is not running.
Locals(i) ==
    /\ dates' = [dates EXCEPT ![i] = NoGenerator]
    /\ date' = [date EXCEPT ![i] = <<>>]
    /\ page' = [page EXCEPT ![i] = 0]
    /\ imoexData' = [imoexData EXCEPT ![i] = <<>>]
    /\ fetched' = [fetched EXCEPT ![i] = NoPage]

MainInit ==
    /\ today = Today0
    /\ cacheImoexData = <<>>
    /\ pc = [i \in Procs |-> "idle"]
    /\ daysBack = [i \in Procs |-> 0]
    /\ cacheKey = [i \in Procs |-> <<>>]
    /\ dates = [i \in Procs |-> NoGenerator]
    /\ date = [i \in Procs |-> <<>>]
    /\ page = [i \in Procs |-> 0]
    /\ imoexData = [i \in Procs |-> <<>>]
    /\ out = [i \in Procs |-> NoResult]
    /\ reqs = [i \in Procs |-> 0]
    /\ failed = [i \in Procs |-> 0]
    /\ raced = [i \in Procs |-> FALSE]
    /\ hit = [i \in Procs |-> FALSE]
    /\ fetched = [i \in Procs |-> NoPage]
    /\ requests = [i \in Procs |-> <<>>]
    /\ outstanding = [i \in Procs |-> {}]
    /\ rowLog = [i \in Procs |-> <<>>]
    /\ completed = <<>>

\* A key made of the date alone.
makeCacheKeyOfDate(db, now) == <<0, formatDate(now)>>

\* `hotStocks_${daysBack}_${formatDate(new Date())}`
makeCacheKey(db, now) == <<db, formatDate(now)>>

NotRunning(i) == pc[i] \in {"idle", "returned", "threw", "threwOnRead"}
Loading(i) == pc[i] \in {"fetch", "loaded", "aborted"}

cacheLookupNever(cache, key) == FALSE

\* cacheImoexData.has(cacheKey)
cacheLookup(cache, key) == MapHas(cache, key)

\* cacheImoexData.get(cacheKey): the entry, or undefined when the key is absent.
cacheRead(cache, key) ==
    IF MapHas(cache, key) THEN [found |-> TRUE, hotStocks |-> MapGet(cache, key)]
    ELSE [found |-> FALSE, hotStocks |-> <<>>]

\* What getHotStocks does with what it read: the copy is returned, and
\* undefined.entries() throws a TypeError.
returnOf(read) ==
    IF read.found THEN [returned |-> TRUE, value |-> toObject(read.hotStocks)]
    ELSE NoResult

pcAfterRead(read) == IF read.found THEN "returned" ELSE "threwOnRead"

\* fetch(url): a request for (date, start) leaves; it is the last of the log
\* and it is outstanding.
fetchIssued(log, date_, start) == Append(log, [date |-> date_, start |-> start])

awaitedNever(pending, log) == pending

\* `await fetchMoexData(date, page)`: loadData goes on when the request it
\* issued last is answered, by a page or by an error.
awaited(pending, log) == pending \ {Len(log)}

\* getHotStocks(db) finding its key in the cache: no await, it returns at once.
CallHit(i, db) ==
    /\ NotRunning(i)
    /\ cacheLookup(cacheImoexData, makeCacheKey(db, today))
    /\ daysBack' = [daysBack EXCEPT ![i] = db]
    /\ cacheKey' = [cacheKey EXCEPT ![i] = makeCacheKey(db, today)]
    /\ hit' = [hit EXCEPT ![i] = TRUE]
    /\ failed' = [failed EXCEPT ![i] = 0]
    /\ reqs' = [reqs EXCEPT ![i] = 0]
    /\ LET read == cacheRead(cacheImoexData, makeCacheKey(db, today))
       IN /\ out' = [out EXCEPT ![i] = returnOf(read)]
          /\ pc' = [pc EXCEPT ![i] = pcAfterRead(read)]
          /\ completed' = IF read.found THEN makeCacheKey(db, today) ELSE completed
    /\ Locals(i)
    /\ raced' = [raced EXCEPT ![i] = FALSE]
    /\ requests' = [requests EXCEPT ![i] = <<>>]
    /\ outstanding' = [outstanding EXCEPT ![i] = {}]
    /\ rowLog' = [rowLog EXCEPT ![i] = <<>>]
    /\ UNCHANGED <<today, cacheImoexData>>

\* getHotStocks(db) missing the cache: loadData runs up to its first await,
\* which is the request for the first date at offset 0.
CallMiss(i, db) ==
    /\ NotRunning(i)
    /\ ~cacheLookup(cacheImoexData, makeCacheKey(db, today))
    /\ 0 < MaxReqs
    /\ LET first == generatorNext(workDaysGenerator(db, today))
       IN /\ dates' = [dates EXCEPT ![i] = first]
          /\ date' = [date EXCEPT ![i] = first.value]
          /\ imoexData' = [imoexData EXCEPT ![i] = MapSet(<<>>, first.value, <<>>)]
          /\ requests' = [requests EXCEPT ![i] = fetchIssued(<<>>, first.value, 0)]
          /\ outstanding' = [outstanding EXCEPT ![i] = {1}]
          /\ rowLog' = [rowLog EXCEPT ![i] = <<>>]
    /\ page' = [page EXCEPT ![i] = 0]
    /\ daysBack' = [daysBack EXCEPT ![i] = db]
    /\ cacheKey' = [cacheKey EXCEPT ![i] = makeCacheKey(db, today)]
    /\ hit' = [hit EXCEPT ![i] = FALSE]
    /\ failed' = [failed EXCEPT ![i] = 0]
    /\ raced' = [j \in Procs |->
                   IF j = i THEN \E k \in Procs \ {i} : Loading(k)
                   ELSE raced[j] \/ Loading(j)]
    /\ reqs' = [reqs EXCEPT ![i] = 1]
    /\ out' = [out EXCEPT ![i] = NoResult]
    /\ fetched' = [fetched EXCEPT ![i] = NoPage]
    /\ pc' = [pc EXCEPT ![i] = "fetch"]
    /\ UNCHANGED <<today, cacheImoexData, completed>>

\* fetchMoexData throws (response.ok false, or response.json() rejecting): the
\* catch of loadData reports it and the while loop goes round with `page`
\* as it was, which is a new request for the same date and offset.
FetchThrows(i) ==
    /\ pc[i] = "fetch"
    /\ reqs[i] < MaxReqs
    /\ failed' = [failed EXCEPT ![i] = @ + 1]
    /\ reqs' = [reqs EXCEPT ![i] = @ + 1]
    /\ requests' = [requests EXCEPT ![i] = fetchIssued(@, date[i], page[i])]
    /\ outstanding' = [outstanding EXCEPT ![i] =
                         awaited(@, requests[i]) \cup {Len(requests[i]) + 1}]
    /\ UNCHANGED <<today, cacheImoexData, pc, daysBack, cacheKey, dates, date,
                   page, imoexData, out, hit, fetched, raced, rowLog, completed>>

\* The rows of a page, in the order the loop over a.history.data reads them.
rowsRead(log, date_, data) ==
    log \o [k \in 1..Len(data) |->
              [date |-> date_, secId |-> data[k].SECID, volume |-> data[k].VOLUME]]

\* The DaySnapshot of the current date after the rows of a page are set.
mergedDay(i, p) == mergeRows(MapGet(imoexData[i], date[i]), p.history.data, 1)

\* `page` after the cursor test.
pageAfter(i, p) ==
    IF lastPage(page[i], p.cursor.data) THEN -1
    ELSE page[i] + p.cursor.data.PAGESIZE

\* A page without one of the columns: loadData returns undefined.
PageSchemaAbort(i, p) ==
    /\ pc[i] = "fetch"
    /\ ~historyColumnsFound(p) \/ ~cursorColumnsFound(p)
    /\ fetched' = [fetched EXCEPT ![i] = p]
    /\ imoexData' = [imoexData EXCEPT ![i] =
                       IF historyColumnsFound(p)
                       THEN MapSet(@, date[i], mergedDay(i, p)) ELSE @]
    /\ pc' = [pc EXCEPT ![i] = "aborted"]
    /\ outstanding' = [outstanding EXCEPT ![i] = awaited(@, requests[i])]
    /\ rowLog' = [rowLog EXCEPT ![i] =
                    IF historyColumnsFound(p)
                    THEN rowsRead(@, date[i], p.history.data) ELSE @]
    /\ UNCHANGED <<today, cacheImoexData, daysBack, cacheKey, dates, date, page,
                   out, reqs, failed, hit, raced, requests, completed>>

\* A page after which the while loop goes on: the next offset is requested.
PageMore(i, p) ==
    /\ pc[i] = "fetch"
    /\ historyColumnsFound(p) /\ cursorColumnsFound(p)
    /\ pageAfter(i, p) >= 0
    /\ reqs[i] < MaxReqs
    /\ fetched' = [fetched EXCEPT ![i] = p]
    /\ imoexData' = [imoexData EXCEPT ![i] = MapSet(@, date[i], mergedDay(i, p))]
    /\ page' = [page EXCEPT ![i] = pageAfter(i, p)]
    /\ reqs' = [reqs EXCEPT ![i] = @ + 1]
    /\ requests' = [requests EXCEPT ![i] = fetchIssued(@, date[i], pageAfter(i, p))]
    /\ outstanding' = [outstanding EXCEPT ![i] =
                         awaited(@, requests[i]) \cup {Len(requests[i]) + 1}]
    /\ rowLog' = [rowLog EXCEPT ![i] = rowsRead(@, date[i], p.history.data)]
    /\ UNCHANGED <<today, cacheImoexData, pc, daysBack, cacheKey, dates, date,
                   out, failed, hit, raced, completed>>

\* A page that ends the while loop while the generator has another date: the
\* for loop sets an empty DaySnapshot for it and requests its offset 0.
PageNextDate(i, p) ==
    /\ pc[i] = "fetch"
    /\ historyColumnsFound(p) /\ cursorColumnsFound(p)
    /\ pageAfter(i, p) < 0
    /\ ~generatorNext(dates[i]).done
    /\ reqs[i] < MaxReqs
    /\ fetched' = [fetched EXCEPT ![i] = p]
    /\ dates' = [dates EXCEPT ![i] = generatorNext(@)]
    /\ date' = [date EXCEPT ![i] = generatorNext(dates[i]).value]
    /\ imoexData' = [imoexData EXCEPT ![i] =
                       MapSet(MapSet(@, date[i], mergedDay(i, p)),
                              generatorNext(dates[i]).value, <<>>)]
    /\ page' = [page EXCEPT ![i] = 0]
    /\ reqs' = [reqs EXCEPT ![i] = @ + 1]
    /\ requests' = [requests EXCEPT ![i] =
                      fetchIssued(@, generatorNext(dates[i]).value, 0)]
    /\ outstanding' = [outstanding EXCEPT ![i] =
                         awaited(@, requests[i]) \cup {Len(requests[i]) + 1}]
    /\ rowLog' = [rowLog EXCEPT ![i] = rowsRead(@, date[i], p.history.data)]
    /\ UNCHANGED <<today, cacheImoexData, pc, daysBack, cacheKey, out, failed, hit,
                   raced, completed>>

\* A page that ends the while loop of the last date: loadData returns imoexData.
PageLast(i, p) ==
    /\ pc[i] = "fetch"
    /\ historyColumnsFound(p) /\ cursorColumnsFound(p)
    /\ pageAfter(i, p) < 0
    /\ generatorNext(dates[i]).done
    /\ fetched' = [fetched EXCEPT ![i] = p]
    /\ dates' = [dates EXCEPT ![i] = generatorNext(@)]
    /\ imoexData' = [imoexData EXCEPT ![i] = MapSet(@, date[i], mergedDay(i, p))]
    /\ page' = [page EXCEPT ![i] = pageAfter(i, p)]
    /\ pc' = [pc EXCEPT ![i] = "loaded"]
    /\ outstanding' = [outstanding EXCEPT ![i] = awaited(@, requests[i])]
    /\ rowLog' = [rowLog EXCEPT ![i] = rowsRead(@, date[i], p.history.data)]
    /\ UNCHANGED <<today, cacheImoexData, daysBack, cacheKey, date, out, reqs,
                   failed, hit, raced, requests, completed>>

cacheStoreNoClear(cache, key, hotStocks) == MapSet(cache, key, hotStocks)

cacheStoreFirstWins(cache, key, hotStocks) ==
    IF MapHas(cache, key) THEN cache ELSE MapSet(<<>>, key, hotStocks)

\* The entry set and the cache cleared after it.
cacheStoreThenClear(cache, key, hotStocks) == <<>>

\* cacheImoexData.clear(); cacheImoexData.set(cacheKey, hotStocks)
cacheStore(cache, key, hotStocks) == MapSet(<<>>, key, hotStocks)

\* getHotStocks resumed with the dataset: averages, hot stocks, the cache
\* cleared and set, the entry read back and copied into the returned object.
Resume(i) ==
    /\ pc[i] = "loaded"
    /\ \E averageVolume \in {computeAverageVolume(imoexData[i])} :
       \E hotStocks \in {computeHotStocks(imoexData[i], averageVolume)} :
       \E stored \in {cacheStore(cacheImoexData, cacheKey[i], hotStocks)} :
       \E read \in {cacheRead(stored, cacheKey[i])} :
          /\ cacheImoexData' = stored
          /\ out' = [out EXCEPT ![i] = returnOf(read)]
          /\ pc' = [pc EXCEPT ![i] = pcAfterRead(read)]
          /\ completed' = IF read.found THEN cacheKey[i] ELSE completed
    /\ Locals(i)
    /\ UNCHANGED <<today, daysBack, cacheKey, reqs, failed, hit, raced, requests,
                   outstanding, rowLog>>

ResumeThrowsCleared(i) ==
    /\ pc[i] = "aborted"
    /\ pc' = [pc EXCEPT ![i] = "threw"]
    /\ cacheImoexData' = <<>>
    /\ Locals(i)
    /\ UNCHANGED <<today, daysBack, cacheKey, out, reqs, failed, hit, raced,
                   requests, outstanding, rowLog, completed>>

\* getHotStocks resumed with undefined: computeAverageVolume(undefined) throws
\* on imoexData.entries() and the call rejects before it touches the cache.
ResumeThrows(i) ==
    /\ pc[i] = "aborted"
    /\ pc' = [pc EXCEPT ![i] = "threw"]
    /\ Locals(i)
    /\ UNCHANGED <<today, cacheImoexData, daysBack, cacheKey, out, reqs, failed, hit,
                   raced, requests, outstanding, rowLog, completed>>

\* Midnight passes.
Tick ==
    /\ DayNumber(today) - DayNumber(Today0) < MaxTicks
    /\ today' = nextDay(today)
    /\ UNCHANGED <<cacheImoexData, pc, daysBack, cacheKey, dates, date, page,
                   imoexData, out, reqs, failed, hit, fetched, raced, requests,
                   outstanding, rowLog, completed>>

-----------------------------------------------------------------------------
(* SpecGen: one generator object, pulled until it returns.                 *)

GenStartDates ==
    {d \in [year : FirstYear..(FirstYear + GenYears), month : 0..11, day : 1..31] :
        d.day <= DaysInMonth(d.year, d.month)}

GenInit ==
    /\ gen \in {[start |-> s, g |-> workDaysGenerator(db, s), yielded |-> <<>>] :
                   s \in GenStartDates, db \in 0..GenMaxDaysBack}

\* next() that yields a date
GenYield ==
    /\ ~gen.g.done
    /\ ~generatorNext(gen.g).done
    /\ gen' = [gen EXCEPT !.g = generatorNext(gen.g),
                          !.yielded = Append(@, generatorNext(gen.g).value)]

\* next() that finds the loop condition false
GenReturn ==
    /\ ~gen.g.done
    /\ generatorNext(gen.g).done
    /\ gen' = [gen EXCEPT !.g = generatorNext(gen.g)]

-----------------------------------------------------------------------------
(* SpecCalc: computeAverageVolume, then computeHotStocks, on one dataset.  *)

CalcDate(k) == formatDate([year |-> 2024, month |-> 2, day |-> 8 - k])

CalcDatasets ==
    { [k \in 1..CalcDays |-> <<CalcDate(k), days[k]>>] :
        days \in [1..CalcDays -> DayMaps(SecIds, Volumes)] }

CalcInit ==
    calc \in {[stage |-> "data", imoexData |-> w, averageVolume |-> <<>>,
               hotStocks |-> <<>>] : w \in CalcDatasets}

CalcAverage ==
    /\ calc.stage = "data"
    /\ calc' = [calc EXCEPT !.stage = "averaged",
                            !.averageVolume = computeAverageVolume(calc.imoexData)]

CalcHot ==
    /\ calc.stage = "averaged"
    /\ calc' = [calc EXCEPT !.stage = "done",
                            !.hotStocks = computeHotStocks(calc.imoexData,
                                                           calc.averageVolume)]

-----------------------------------------------------------------------------
(* SpecRatio: divideBigInt(a, b) and divideBigInt(k * a, k * b).           *)

\* 5 * 2^50: the least quotient whose tenth is a double of spacing 1/8.
RatioLarge == BigMulSmall(BigPow2(50), 5)

RatioNumerators ==
    {BigInt(n) : n \in 0..MaxNumerator}
    \cup {BigAdd(RatioLarge, BigInt(n)) : n \in 0..MaxOffset}
    \cup {BigSub(RatioLarge, BigInt(n)) : n \in 0..MaxOffset}

RatioDenominators == {BigInt(d) : d \in (1..MaxDenominator) \cup {100}}

RatioInit ==
    ratioCall \in {[stage |-> "args", a |-> a, b |-> b, k |-> k, r |-> <<>>, rk |-> <<>>] :
                  a \in RatioNumerators, b \in RatioDenominators, k \in 1..MaxScale}

RatioDivide ==
    /\ ratioCall.stage = "args"
    /\ ratioCall' = [ratioCall EXCEPT
                   !.stage = "done",
                   !.r = divideBigInt(ratioCall.a, ratioCall.b),
                   !.rk = divideBigInt(BigMulSmall(ratioCall.a, ratioCall.k),
                                       BigMulSmall(ratioCall.b, ratioCall.k))]

-----------------------------------------------------------------------------
(* SpecSource: an endpoint that answers every request with a page of all   *)
(* the columns, whose cursor reports the offset asked for as INDEX and the *)
(* TOTAL and PAGESIZE of the date.                                         *)

\* max(1, ceil(TOTAL / PAGESIZE)), for PAGESIZE > 0.
RequestsOfDate(s) ==
    IF s.TOTAL > s.PAGESIZE THEN (s.TOTAL + s.PAGESIZE - 1) \div s.PAGESIZE ELSE 1

\* A date whose cursor never reaches TOTAL: PAGESIZE = 0 with INDEX < TOTAL.
Endless(s) == s.PAGESIZE = 0 /\ s.TOTAL > 0

RECURSIVE RequestsOfWindow(_, _)
RequestsOfWindow(src, k) ==
    IF k > Len(src) THEN 0
    ELSE RequestsOfDate(src[k]) + RequestsOfWindow(src, k + 1)

\* The endpoints of the model: one (TOTAL, PAGESIZE) per date of the window,
\* either with an endless date or with a load within MaxReqs requests.
Sources ==
    {src \in UNION {[1..n -> [TOTAL : 0..MaxTotal, PAGESIZE : 0..MaxPageSize]] :
                       n \in 1..(MaxDaysBack + 1)} :
        \/ \E k \in 1..Len(src) : Endless(src[k])
        \/ RequestsOfWindow(src, 1) <= MaxReqs}

SourceInit == source \in Sources

\* The page the endpoint sends invocation 1 for the request outstanding (the
\* rows play no part in the pagination: the page has none).
SourcePage ==
    Page(HistoryColumns, <<>>, CursorColumns,
         [INDEX |-> page[1],
          TOTAL |-> source[Len(imoexData[1])].TOTAL,
          PAGESIZE |-> source[Len(imoexData[1])].PAGESIZE])

-----------------------------------------------------------------------------
(* The specifications.                                                     *)

GenIdle == gen = [start |-> Today0, g |-> NoGenerator, yielded |-> <<>>]
CalcIdle == calc = [stage |-> "idle", imoexData |-> <<>>, averageVolume |-> <<>>,
                    hotStocks |-> <<>>]
SourceIdle == source = <<>>
RatioIdle == ratioCall = [stage |-> "idle", a |-> <<>>, b |-> <<1>>, k |-> 1,
                      r |-> <<>>, rk |-> <<>>]

Init == MainInit /\ GenIdle /\ CalcIdle /\ RatioIdle /\ SourceIdle

Next ==
    \/ \E i \in Procs, db \in 0..MaxDaysBack :
          /\ CallHit(i, db)
          /\ UNCHANGED <<gen, calc, ratioCall, source>>
    \/ \E i \in Procs, db \in 0..MaxDaysBack :
          /\ CallMiss(i, db)
          /\ UNCHANGED <<gen, calc, ratioCall, source>>
    \/ \E i \in Procs : FetchThrows(i) /\ UNCHANGED <<gen, calc, ratioCall, source>>
    \/ \E i \in Procs, p \in SmallPages :
          /\ PageSchemaAbort(i, p)
          /\ UNCHANGED <<gen, calc, ratioCall, source>>
    \/ \E i \in Procs, p \in SmallPages :
          /\ PageNextDate(i, p)
          /\ UNCHANGED <<gen, calc, ratioCall, source>>
    \/ \E i \in Procs, p \in SmallPages : PageLast(i, p) /\ UNCHANGED <<gen, calc, ratioCall, source>>
    \/ \E i \in Procs : Resume(i) /\ UNCHANGED <<gen, calc, ratioCall, source>>
    \/ \E i \in Procs : ResumeThrows(i) /\ UNCHANGED <<gen, calc, ratioCall, source>>
    \/ Tick /\ UNCHANGED <<gen, calc, ratioCall, source>>

Spec == Init /\ [][Next]_vars

\* One call of getHotStocks, from the empty cache.
LoadNext ==
    \/ \E db \in 0..MaxDaysBack :
          /\ pc[1] = "idle"
          /\ CallMiss(1, db)
          /\ UNCHANGED <<gen, calc, ratioCall, source>>
    \/ FetchThrows(1) /\ UNCHANGED <<gen, calc, ratioCall, source>>
    \/ \E p \in LoadPages : PageSchemaAbort(1, p) /\ UNCHANGED <<gen, calc, ratioCall, source>>
    \/ \E p \in LoadPages : PageMore(1, p) /\ UNCHANGED <<gen, calc, ratioCall, source>>
    \/ \E p \in LoadPages : PageNextDate(1, p) /\ UNCHANGED <<gen, calc, ratioCall, source>>
    \/ \E p \in LoadPages : PageLast(1, p) /\ UNCHANGED <<gen, calc, ratioCall, source>>
    \/ Resume(1) /\ UNCHANGED <<gen, calc, ratioCall, source>>
    \/ ResumeThrows(1) /\ UNCHANGED <<gen, calc, ratioCall, source>>

SpecLoad == Init /\ [][LoadNext]_vars

GenNext ==
    \/ GenYield /\ UNCHANGED <<mainVars, calc, ratioCall, source>>
    \/ GenReturn /\ UNCHANGED <<mainVars, calc, ratioCall, source>>

GenSpecInit == MainInit /\ GenInit /\ CalcIdle /\ RatioIdle /\ SourceIdle

SpecGen == GenSpecInit /\ [][GenNext]_vars

CalcNext ==
    \/ CalcAverage /\ UNCHANGED <<mainVars, gen, ratioCall, source>>
    \/ CalcHot /\ UNCHANGED <<mainVars, gen, ratioCall, source>>

CalcSpecInit == MainInit /\ GenIdle /\ CalcInit /\ RatioIdle /\ SourceIdle

SpecCalc == CalcSpecInit /\ [][CalcNext]_vars

RatioNext == RatioDivide /\ UNCHANGED <<mainVars, gen, calc, source>>

RatioSpecInit == MainInit /\ GenIdle /\ CalcIdle /\ RatioInit /\ SourceIdle

SpecRatio == RatioSpecInit /\ [][RatioNext]_vars

\* One call of getHotStocks with daysBack + 1 = the dates of the source.
SourceNext ==
    \/ /\ pc[1] = "idle"
       /\ CallMiss(1, Len(source) - 1)
       /\ UNCHANGED <<gen, calc, ratioCall, source>>
    \/ PageMore(1, SourcePage) /\ UNCHANGED <<gen, calc, ratioCall, source>>
    \/ PageNextDate(1, SourcePage) /\ UNCHANGED <<gen, calc, ratioCall, source>>
    \/ PageLast(1, SourcePage) /\ UNCHANGED <<gen, calc, ratioCall, source>>
    \/ Resume(1) /\ UNCHANGED <<gen, calc, ratioCall, source>>

SourceSpecInit == MainInit /\ GenIdle /\ CalcIdle /\ RatioIdle /\ SourceInit

\* The endpoint answers every request and the event loop runs every
\* continuation that is ready.
SpecSource == SourceSpecInit /\ [][SourceNext]_vars /\ WF_vars(SourceNext)

-----------------------------------------------------------------------------
(* Properties of getHotStocks and loadData.                                *)

\* A step that is the start of a getHotStocks call of proc i.
CallStep(i) ==
    /\ NotRunning(i)
    /\ <<pc[i], daysBack[i], cacheKey[i], reqs[i], hit[i], out[i], raced[i]>>
         # <<pc'[i], daysBack'[i], cacheKey'[i], reqs'[i], hit'[i], out'[i],
             raced'[i]>>

\* A step in which fetchMoexData returns a page to proc i.
PageStep(i) ==
    /\ pc[i] = "fetch"
    /\ failed'[i] = failed[i]
    /\ reqs'[i] # reqs[i] \/ pc'[i] # pc[i]

\* The key the spec gives a call of proc i made now: (daysBack, today).
KeyNow(i) == <<daysBack'[i], <<today.year, today.month + 1, today.day>>>>

Malformed(p) ==
    /\ p # NoPage
    /\ ~(HistoryColumns \subseteq p.history.columns
         /\ CursorColumns \subseteq p.cursor.columns)

\* C1 (as claimed): once a fetchMoexData call of an invocation has failed,
\* that invocation issues no further request.
C1_FailureIsFatal ==
    [][\A i \in Procs : failed'[i] > 0 => reqs'[i] = reqs[i]]_vars

\* C2: a page lacking a required history or cursor column aborts the load:
\* the invocation is then suspended with loadData's undefined, it makes no
\* further request, it ends by throwing without a result, and the cache is
\* left as it was.
C2_SchemaAbort ==
    /\ [](\A i \in Procs : Malformed(fetched[i]) => pc[i] = "aborted")
    /\ [][\A i \in Procs :
            pc[i] = "aborted" /\ <<pc[i], reqs[i], out[i]>> # <<pc'[i], reqs'[i], out'[i]>>
            => /\ pc'[i] = "threw"
               /\ reqs'[i] = reqs[i]
               /\ ~out'[i].returned
               /\ cacheImoexData' = cacheImoexData]_vars
    /\ [](\A i \in Procs : pc[i] = "threw" => ~out[i].returned)

C2_Witness ==
    /\ pc[1] = "threw"
    /\ ~out[1].returned
    /\ daysBack[1] = 1
    /\ reqs[1] = 2
    /\ cacheImoexData = <<>>

\* C3 (as claimed): once a call has returned, any later call with the same
\* daysBack on the same day is a hit: no request, the same mapping, the
\* cache unchanged.
C3_AnyLaterCallHits ==
    [][\A i, j \in Procs :
         CallStep(i) /\ pc[j] = "returned" /\ cacheKey[j] = KeyNow(i)
         => /\ reqs'[i] = 0
            /\ out'[i] = out[j]
            /\ cacheImoexData' = cacheImoexData]_vars

\* C3 (amended): a call that finds the key (daysBack, today) in the cache
\* issues no request, returns the mapping stored under the key and leaves
\* the cache unchanged.
C3_CacheHit ==
    [][\A i \in Procs :
         CallStep(i) /\ MapHas(cacheImoexData, KeyNow(i))
         => /\ hit'[i]
            /\ reqs'[i] = 0
            /\ pc'[i] = "returned"
            /\ out'[i] = [returned |-> TRUE,
                          value |-> toObject(MapGet(cacheImoexData, KeyNow(i)))]
            /\ cacheImoexData' = cacheImoexData]_vars

C3_Witness ==
    \E i, j \in Procs :
        /\ i # j
        /\ pc[i] = "returned" /\ hit[i] /\ reqs[i] = 0
        /\ pc[j] = "returned" /\ ~hit[j] /\ reqs[j] > 0
        /\ cacheKey[i] = cacheKey[j]
        /\ out[i] = out[j]
        /\ DOMAIN out[i].value # {}

\* The SECIDs of the rows of a page.
PageSecIds(p) == {p.history.data[k].SECID : k \in 1..Len(p.history.data)}

\* C4: pagination of one date.  The first request of a date has offset 0;
\* a well-formed page whose cursor has INDEX + PAGESIZE >= TOTAL ends the
\* requests for its date (the next request, if any, is offset 0 of a new
\* date); any other well-formed page is followed by exactly one request, for
\* the same date at the previous offset + PAGESIZE; and every page adds its
\* SECIDs to the DaySnapshot of its date while no snapshot loses a SECID.
C4_Pagination ==
    [][\A i \in Procs :
         /\ CallStep(i) /\ ~hit'[i]
            => page'[i] = 0 /\ reqs'[i] = 1 /\ Len(imoexData'[i]) = 1
         /\ PageStep(i) /\ ~Malformed(fetched'[i])
            => LET cur == fetched'[i].cursor.data
               IN /\ IF cur.INDEX + cur.PAGESIZE >= cur.TOTAL
                     THEN \/ /\ pc'[i] = "loaded"
                             /\ reqs'[i] = reqs[i]
                             /\ Len(imoexData'[i]) = Len(imoexData[i])
                          \/ /\ pc'[i] = "fetch"
                             /\ reqs'[i] = reqs[i] + 1
                             /\ page'[i] = 0
                             /\ Len(imoexData'[i]) = Len(imoexData[i]) + 1
                             /\ date'[i] = imoexData'[i][Len(imoexData'[i])][1]
                             /\ date'[i] \notin MapKeys(imoexData[i])
                     ELSE /\ pc'[i] = "fetch"
                          /\ reqs'[i] = reqs[i] + 1
                          /\ date'[i] = date[i]
                          /\ page'[i] = page[i] + cur.PAGESIZE
                          /\ Len(imoexData'[i]) = Len(imoexData[i])
                  /\ \A d \in MapKeys(imoexData[i]) :
                        /\ MapHas(imoexData'[i], d)
                        /\ MapKeys(MapGet(imoexData[i], d))
                             \subseteq MapKeys(MapGet(imoexData'[i], d))
                        /\ d # date[i]
                             => MapGet(imoexData'[i], d) = MapGet(imoexData[i], d)
                  /\ MapKeys(MapGet(imoexData'[i], date[i]))
                       = MapKeys(MapGet(imoexData[i], date[i]))
                           \cup PageSecIds(fetched'[i])]_vars

\* Three pages of one date with PAGESIZE 2 and TOTAL 5: three requests, the
\* rows of the pages merged.
C4_Witness ==
    /\ pc[1] = "loaded"
    /\ daysBack[1] = 0
    /\ reqs[1] = 3
    /\ failed[1] = 0
    /\ fetched[1].cursor.data = [INDEX |-> 4, TOTAL |-> 5, PAGESIZE |-> 2]
    /\ Len(imoexData[1]) = 1
    /\ MapKeys(imoexData[1][1][2]) = SecIds
    /\ fetched[1].history.data = <<>>

\* A step in which an invocation of proc i that missed the cache ends.
EndOfMiss(i) == pc[i] \in {"loaded", "aborted"} /\ pc'[i] \in {"returned", "threw"}

C6_SingleSlot == Len(cacheImoexData) <= 1 /\ Cardinality(MapKeys(cacheImoexData)) <= 1

\* One entry in the cache while an invocation with another key is about to
\* store its own.
C6_Witness ==
    \E i \in Procs :
        /\ pc[i] = "loaded"
        /\ Len(cacheImoexData) = 1
        /\ ~MapHas(cacheImoexData, cacheKey[i])

\* C7: concurrent invocations are not deduplicated.  A call that starts
\* while another invocation is loading under the same key, the key not yet
\* cached, makes its own first request; an invocation that ran alongside
\* another one has made at least one request per date of its window when it
\* returns, and at that moment the cache holds its entry and nothing else.
C7_NoDeduplication ==
    [][\A i \in Procs :
         /\ CallStep(i)
            /\ ~MapHas(cacheImoexData, KeyNow(i))
            /\ (\E j \in Procs \ {i} : Loading(j) /\ cacheKey[j] = KeyNow(i))
            => /\ pc'[i] = "fetch"
               /\ reqs'[i] = 1
               /\ raced'[i]
         /\ EndOfMiss(i) /\ pc'[i] = "returned" /\ raced[i]
            => /\ reqs[i] >= daysBack[i] + 1
               /\ Len(cacheImoexData') = 1
               /\ cacheImoexData'[1][1] = cacheKey[i]
               /\ cacheImoexData'[1][2] =
                    computeHotStocks(imoexData[i],
                                     computeAverageVolume(imoexData[i]))
               /\ out'[i].value = toObject(cacheImoexData'[1][2])]_vars

\* Two invocations of the same key that ran together, both returned with
\* different mappings: the cache holds the mapping of one of them, which is
\* not the mapping of the other.
C7_Witness ==
    \E i, j \in Procs :
        /\ i # j
        /\ pc[i] = "returned" /\ ~hit[i] /\ raced[i]
        /\ pc[j] = "returned" /\ ~hit[j] /\ raced[j]
        /\ cacheKey[i] = cacheKey[j]
        /\ reqs[i] >= daysBack[i] + 1 /\ reqs[j] >= daysBack[j] + 1
        /\ out[i].value # out[j].value
        /\ Len(cacheImoexData) = 1
        /\ toObject(cacheImoexData[1][2]) = out[j].value

\* C16: the key distinguishes daysBack and one key survives.  When the last
\* call to return a mapping had daysBack = b and returned today, a call with
\* daysBack = b is a hit without a request, and a call with any other
\* daysBack, one that completed before the call with b included, is a miss
\* that starts a load with the request for its first date.
C16_KeyDistinguishesDaysBack ==
    [][\A i \in Procs :
         CallStep(i) /\ completed # <<>> /\ completed[2] = formatDate(today)
         => IF daysBack'[i] = completed[1]
            THEN /\ hit'[i]
                 /\ reqs'[i] = 0
                 /\ requests'[i] = <<>>
                 /\ pc'[i] = "returned"
            ELSE /\ ~hit'[i]
                 /\ reqs'[i] = 1
                 /\ Len(requests'[i]) = 1
                 /\ requests'[i][1].start = 0
                 /\ pc'[i] = "fetch"]_vars

\* A call with daysBack = 0 completed, then one with daysBack = 1, and the
\* caller of the latter now calls with daysBack = 0: it is loading again.
C16_Witness ==
    \E i, j \in Procs :
        /\ i # j
        /\ pc[j] = "returned" /\ ~hit[j]
        /\ cacheKey[j] = <<0, formatDate(today)>>
        /\ completed = <<1, formatDate(today)>>
        /\ pc[i] = "fetch" /\ ~hit[i] /\ reqs[i] >= 1
        /\ cacheKey[i] = <<0, formatDate(today)>>
        /\ MapKeys(cacheImoexData) = {<<1, formatDate(today)>>}

\* A step in which proc i reads the cache under its key: a call that found
\* the key, or the end of a load.
ReadStep(i) ==
    \/ CallStep(i) /\ hit'[i]
    \/ pc[i] = "loaded" /\ pc'[i] # "loaded"

\* C18: an invocation never reads a missing cache entry.  In every
\* interleaving of the invocations, with the same or different daysBack, no
\* invocation ends on a read of the cache that found nothing; the step in
\* which an invocation reads leaves its key in the cache and returns the copy
\* of the entry under it.
C18_ReadFindsEntry ==
    /\ [](\A i \in Procs : pc[i] # "threwOnRead")
    /\ [][\A i \in Procs :
            ReadStep(i)
            => /\ MapHas(cacheImoexData', cacheKey'[i])
               /\ pc'[i] = "returned"
               /\ out'[i] = [returned |-> TRUE,
                             value |-> toObject(MapGet(cacheImoexData',
                                                       cacheKey'[i]))]]_vars

\* Two loads in flight together, daysBack 0 and 1: the second to end cleared
\* the entry of the first and read its own; both returned a mapping.
C18_Witness ==
    /\ pc[1] = "returned" /\ pc[2] = "returned"
    /\ ~hit[1] /\ ~hit[2]
    /\ raced[1] /\ raced[2]
    /\ daysBack[1] = 0 /\ daysBack[2] = 1
    /\ out[1].returned /\ out[2].returned
    /\ completed = cacheKey[2]
    /\ ~MapHas(cacheImoexData, cacheKey[1])
    /\ MapHas(cacheImoexData, cacheKey[2])

-----------------------------------------------------------------------------
(* Properties of the requests of loadData.                                 *)

\* The dates of a request log, each once, in the order of their first request.
RECURSIVE DatesVisited(_)
DatesVisited(log) ==
    IF log = <<>> THEN <<>>
    ELSE LET before == DatesVisited(SubSeq(log, 1, Len(log) - 1))
             last == log[Len(log)].date
         IN IF \E k \in 1..Len(before) : before[k] = last THEN before
            ELSE Append(before, last)

\* The dates of a WindowDataset, in the order of the Map.
DatesOf(data) == [k \in 1..Len(data) |-> data[k][1]]

\* C13: the requests of one invocation are serial.  At most one request is
\* outstanding; when a request is issued it is the only outstanding one, so
\* the response to the previous one has been processed; the dates of the
\* requests never go back to a more recent date, so all the requests of a
\* date come before those of the next, older, date; and the WindowDataset
\* holds the dates in the order of their first request.
C13_SerialRequests ==
    /\ [](\A i \in Procs :
            /\ Cardinality(outstanding[i]) <= 1
            /\ \A k \in 1..(Len(requests[i]) - 1) :
                  \/ requests[i][k + 1].date = requests[i][k].date
                  \/ DateBefore(requests[i][k + 1].date, requests[i][k].date)
            /\ Loading(i) => DatesOf(imoexData[i]) = DatesVisited(requests[i]))
    /\ [][\A i \in Procs :
            Len(requests'[i]) > Len(requests[i]) /\ ~CallStep(i)
            => /\ Len(requests'[i]) = Len(requests[i]) + 1
               /\ outstanding[i] = {Len(requests[i])}
               /\ outstanding'[i] = {Len(requests'[i])}
               /\ SubSeq(requests'[i], 1, Len(requests[i])) = requests[i]]_vars

\* Two pages of Friday 2024-03-01, then the page of Thursday 2024-02-29.
C13_Witness ==
    /\ pc[1] = "loaded"
    /\ outstanding[1] = {}
    /\ requests[1] = <<[date |-> <<2024, 3, 1>>, start |-> 0],
                       [date |-> <<2024, 3, 1>>, start |-> 2],
                       [date |-> <<2024, 2, 29>>, start |-> 0]>>
    /\ DatesOf(imoexData[1]) = <<<<2024, 3, 1>>, <<2024, 2, 29>>>>

-----------------------------------------------------------------------------
(* Properties of the result, stated on the rows the endpoint sent.         *)

\* The SECIDs of the rows of a date, each once, in the order first read.
RECURSIVE FirstSeen(_, _)
FirstSeen(log, d) ==
    IF log = <<>> THEN <<>>
    ELSE LET before == FirstSeen(SubSeq(log, 1, Len(log) - 1), d)
             last == log[Len(log)]
         IN IF last.date # d \/ (\E k \in 1..Len(before) : before[k] = last.secId)
            THEN before
            ELSE Append(before, last.secId)

\* The rows (as indexes into the log) of a security on a date.
RowsFor(log, d, secId) ==
    {k \in 1..Len(log) : log[k].date = d /\ log[k].secId = secId}

\* The volume of the last row of a security on a date.
LastVolume(log, d, secId) ==
    log[CHOOSE k \in RowsFor(log, d, secId) :
            \A n \in RowsFor(log, d, secId) : n <= k].volume

\* The dates on which some row names the security.
DatesWith(log, secId) == {log[k].date : k \in {n \in 1..Len(log) : log[n].secId = secId}}

RECURSIVE SumLastVolumes(_, _, _)
SumLastVolumes(log, secId, ds) ==
    IF ds = {} THEN 0
    ELSE LET d == CHOOSE x \in ds : TRUE
         IN LastVolume(log, d, secId) + SumLastVolumes(log, secId, ds \ {d})

\* The average of a security: its last volume of each date it has rows on,
\* summed, over the number of those dates, truncated.
LogAverage(log, secId) ==
    SumLastVolumes(log, secId, DatesWith(log, secId))
        \div Cardinality(DatesWith(log, secId))

\* The securities the result is to list under a date, in order.
ExpectedSecIds(log, d) ==
    SelectSeq(FirstSeen(log, d), LAMBDA secId : LogAverage(log, secId) # 0)

\* The securities a returned mapping lists under a date, in order.
ListedSecIds(value, d) ==
    IF d \in DOMAIN value THEN [n \in 1..Len(value[d]) |-> value[d][n].secId]
    ELSE <<>>

\* The dates an invocation requested.
RequestedDates(log) == {log[k].date : k \in 1..Len(log)}

\* An invocation that loaded and returned.
ReturnedLoad(i) == pc[i] = "returned" /\ ~hit[i]

\* C14: under each date the result lists the securities in the order their
\* SECIDs were first read for that date, page after page and row after row,
\* those of average 0 left out.
C14_FirstSeenOrder ==
    \A i \in Procs :
        ReturnedLoad(i)
        => \A d \in RequestedDates(requests[i]) :
              ListedSecIds(out[i].value, d) = ExpectedSecIds(rowLog[i], d)

\* BBB, AAA on the first page and BBB again on the second: BBB is listed
\* before AAA.
C14_Witness ==
    /\ ReturnedLoad(1)
    /\ Len(rowLog[1]) = 3
    /\ [k \in 1..3 |-> rowLog[1][k].secId] = <<"BBB", "AAA", "BBB">>
    /\ \A k \in 1..3 : rowLog[1][k].date = <<2024, 3, 1>> /\ rowLog[1][k].volume = 100
    /\ Len(requests[1]) = 2
    /\ ListedSecIds(out[1].value, <<2024, 3, 1>>) = <<"BBB", "AAA">>

\* C15: last write wins within a date.  However many rows of a date name
\* a SECID, the DaySnapshot of the date holds one record for it, built from
\* the last of those rows; and in the result the ratio of the security under
\* a date is the volume of its last row of that date over the average of its
\* last volumes, one per date.
C15_LastWriteWins ==
    \A i \in Procs :
        /\ Loading(i)
           => \A k \in 1..Len(imoexData[i]) :
                 LET d == imoexData[i][k][1]
                     day == imoexData[i][k][2]
                 IN /\ MapKeys(day) = {rowLog[i][n].secId :
                                          n \in {x \in 1..Len(rowLog[i]) :
                                                    rowLog[i][x].date = d}}
                    /\ Len(day) = Cardinality(MapKeys(day))
                    /\ \A secId \in MapKeys(day) :
                          MapGet(day, secId).volume = LastVolume(rowLog[i], d, secId)
        /\ ReturnedLoad(i)
           => \A d \in DOMAIN out[i].value :
                 \A n \in 1..Len(out[i].value[d]) :
                    LET entry == out[i].value[d][n]
                        volume == LastVolume(rowLog[i], d, entry.secId)
                        average == LogAverage(rowLog[i], entry.secId)
                        q == (100 * volume) \div average
                    IN /\ RowsFor(rowLog[i], d, entry.secId) # {}
                       /\ average # 0
                       /\ entry.ratio * 10 <= q + 5
                       /\ q + 5 < (entry.ratio + 1) * 10

\* AAA with volume 0 and then 100 on the first date, 100 on the second: its
\* average is 100 and both ratios are 1.0.
C15_Witness ==
    /\ ReturnedLoad(1)
    /\ rowLog[1] = <<[date |-> <<2024, 3, 1>>, secId |-> "AAA", volume |-> 0],
                     [date |-> <<2024, 3, 1>>, secId |-> "AAA", volume |-> 100],
                     [date |-> <<2024, 2, 29>>, secId |-> "AAA", volume |-> 100]>>
    /\ out[1].value = [d \in {<<2024, 3, 1>>, <<2024, 2, 29>>} |->
                         <<[secId |-> "AAA", ratio |-> 10, turnover |-> 2]>>]

\* The dates a workDaysGenerator object has yet to yield.
RECURSIVE DatesYielded(_)
DatesYielded(g) ==
    LET next == generatorNext(g)
    IN IF next.done THEN {} ELSE {next.value} \cup DatesYielded(next)

\* The dates getHotStocks enumerates when called with the key `key`.
EnumeratedDates(key) == DatesYielded(workDaysGenerator(key[1], ParseDate(key[2])))

\* C19: in a mapping getHotStocks returns, each key is one of the
\* daysBack + 1 dates enumerated and its list is not empty; a date all of
\* whose securities have average 0, and so a date of which no row was read,
\* is not a key.
C19_NoEmptyDate ==
    \A i \in Procs :
        ReturnedLoad(i)
        => LET value == out[i].value
               enumerated == EnumeratedDates(cacheKey[i])
           IN /\ Cardinality(enumerated) = daysBack[i] + 1
              /\ DOMAIN value \subseteq enumerated
              /\ \A d \in DOMAIN value : Len(value[d]) >= 1
              /\ \A d \in enumerated :
                    (\A secId \in {rowLog[i][n].secId :
                                      n \in {x \in 1..Len(rowLog[i]) :
                                                rowLog[i][x].date = d}} :
                        LogAverage(rowLog[i], secId) = 0)
                    => d \notin DOMAIN value

\* BBB with volume 0 on the first date and nowhere else, AAA with volume 100
\* on the second: the mapping has the second date alone.
C19_Witness ==
    /\ ReturnedLoad(1)
    /\ daysBack[1] = 1
    /\ rowLog[1] = <<[date |-> <<2024, 3, 1>>, secId |-> "BBB", volume |-> 0],
                     [date |-> <<2024, 2, 29>>, secId |-> "AAA", volume |-> 100]>>
    /\ DOMAIN out[1].value = {<<2024, 2, 29>>}
    /\ Len(out[1].value[<<2024, 2, 29>>]) = 1

-----------------------------------------------------------------------------
(* Termination of the load (SpecSource).                                   *)

\* The requests of invocation 1 for the k-th date it visited.
RequestsFor(k) ==
    {n \in 1..Len(requests[1]) :
        requests[1][n].date = DatesVisited(requests[1])[k]}

\* C17: against an endpoint that answers every request with all the columns,
\* INDEX the offset asked for and, per date, a fixed TOTAL and a fixed
\* PAGESIZE > 0, getHotStocks eventually returns, and it has then issued
\* max(1, ceil(TOTAL / PAGESIZE)) requests for each of its daysBack + 1 dates.
\* When the endpoint reports PAGESIZE = 0 and a TOTAL above 0 for a date, each
\* answer for that date is followed by a request for the same date and
\* offset, and the invocation never gets its dataset.
C17_Termination ==
    /\ (\A k \in 1..Len(source) : source[k].PAGESIZE > 0) => <>(pc[1] = "returned")
    /\ [](pc[1] = "returned" /\ (\A k \in 1..Len(source) : source[k].PAGESIZE > 0)
          => /\ Len(source) = daysBack[1] + 1
             /\ Len(DatesVisited(requests[1])) = daysBack[1] + 1
             /\ failed[1] = 0
             /\ \A k \in 1..Len(source) :
                   Cardinality(RequestsFor(k)) = RequestsOfDate(source[k]))
    /\ []((\E k \in 1..Len(source) : Endless(source[k]))
          => pc[1] \notin {"loaded", "returned"})
    /\ [][pc[1] = "fetch" /\ Endless(source[Len(imoexData[1])])
          /\ requests'[1] # requests[1]
          => /\ pc'[1] = "fetch"
             /\ requests'[1] = Append(requests[1], requests[1][Len(requests[1])])]_vars

\* TOTAL 3 by pages of 2 on the first date, an empty second date: two
\* requests and one.
C17_Witness ==
    /\ pc[1] = "returned"
    /\ source = <<[TOTAL |-> 3, PAGESIZE |-> 2], [TOTAL |-> 0, PAGESIZE |-> 1]>>
    /\ [n \in 1..Len(requests[1]) |-> requests[1][n].start] = <<0, 2, 0>>
    /\ Cardinality(RequestsFor(1)) = 2
    /\ Cardinality(RequestsFor(2)) = 1

-----------------------------------------------------------------------------
(* Properties of workDaysGenerator (SpecGen).                              *)

\* Days since 1970-01-01 of a formatted date.
DayNumberOf(f) == DayNumber(ParseDate(f))

\* C8: the generator yields daysBack + 1 dates, never more; each is a
\* business day strictly before the one before it, the first strictly before
\* the start date; and every calendar day passed over, between the start
\* date and the first date or between two consecutive dates, is a Saturday
\* or a Sunday.
C8_WorkDays ==
    LET y == gen.yielded
        db == gen.g.daysBack
    IN /\ Len(y) <= db + 1
       /\ gen.g.done => Len(y) = db + 1
       /\ \A k \in 1..Len(y) : ~IsWeekend(y[k])
       /\ Len(y) >= 1
            => /\ DateBefore(y[1], formatDate(gen.start))
               /\ \A n \in (DayNumberOf(y[1]) + 1)..(DayNumber(gen.start) - 1) :
                     (n + 4) % 7 \in {0, 6}
       /\ \A k \in 1..(Len(y) - 1) :
            /\ DateBefore(y[k + 1], y[k])
            /\ DayNumberOf(y[k + 1]) < DayNumberOf(y[k])
            /\ \A n \in (DayNumberOf(y[k + 1]) + 1)..(DayNumberOf(y[k]) - 1) :
                  (n + 4) % 7 \in {0, 6}

\* A full window from Monday 2024-03-04: over a weekend, into February of a
\* leap year.
C8_Witness ==
    /\ gen.g.done
    /\ gen.start = [year |-> 2024, month |-> 2, day |-> 4]
    /\ gen.g.daysBack = 2
    /\ gen.yielded = <<<<2024, 3, 1>>, <<2024, 2, 29>>, <<2024, 2, 28>>>>

-----------------------------------------------------------------------------
(* Properties of computeAverageVolume and computeHotStocks (SpecCalc).     *)

\* The days (indexes into the dataset) on which a security appears.
DaysOf(data, secId) == {k \in 1..Len(data) : MapHas(data[k][2], secId)}

RECURSIVE SumVolumes(_, _, _)
SumVolumes(data, secId, days) ==
    IF days = {} THEN 0
    ELSE LET k == CHOOSE x \in days : TRUE
         IN MapGet(data[k][2], secId).volume + SumVolumes(data, secId, days \ {k})

Observed(data) == UNION {MapKeys(data[k][2]) : k \in 1..Len(data)}

\* C9: computeAverageVolume has an entry for exactly the securities seen on
\* some day; its totalVolume is the sum of the volumes of the days on which
\* the security appears, its count the number of those days, its average
\* the truncated quotient.
C9_Average ==
    calc.stage \in {"averaged", "done"}
    => /\ MapKeys(calc.averageVolume) = Observed(calc.imoexData)
       /\ Len(calc.averageVolume) = Cardinality(Observed(calc.imoexData))
       /\ \A secId \in Observed(calc.imoexData) :
            LET e == MapGet(calc.averageVolume, secId)
                days == DaysOf(calc.imoexData, secId)
                total == SumVolumes(calc.imoexData, secId, days)
            IN /\ e.totalVolume = total
               /\ e.count = Cardinality(days)
               /\ e.average * e.count <= total
               /\ total < (e.average + 1) * e.count

\* Volumes 100 and 300 on the two days average 200; a security seen on one
\* day only is averaged over that day alone, with a truncated odd sum beside.
C9_Witness ==
    /\ calc.stage = "averaged"
    /\ \A k \in 1..2 : MapHas(calc.imoexData[k][2], "AAA")
    /\ MapGet(calc.averageVolume, "AAA") =
         [totalVolume |-> 400, count |-> 2, average |-> 200]
    /\ MapGet(calc.imoexData[1][2], "AAA").volume = 100
    /\ MapGet(calc.imoexData[2][2], "AAA").volume = 300
    /\ MapHas(calc.averageVolume, "BBB")
    /\ MapGet(calc.averageVolume, "BBB").count = 1
    /\ MapGet(calc.averageVolume, "BBB").average = 400

\* The window average of a security, from the dataset.
WindowAverage(data, secId) ==
    SumVolumes(data, secId, DaysOf(data, secId))
        \div Cardinality(DaysOf(data, secId))

\* The entries computeHotStocks lists under the date of day k.
EntriesOf(hotStocks, data, k) ==
    IF MapHas(hotStocks, data[k][1]) THEN MapGet(hotStocks, data[k][1]) ELSE <<>>

\* C10: computeHotStocks lists, under each date, exactly one entry for each
\* security of that day with a non-zero window average and none for the
\* others, whatever the ratio; the ratio of the entry is the day's volume
\* over the window average, rounded to one decimal (in tenths).
C10_HotStocks ==
    calc.stage = "done"
    => /\ MapKeys(calc.hotStocks) \subseteq {calc.imoexData[k][1] : k \in 1..Len(calc.imoexData)}
       /\ \A k \in 1..Len(calc.imoexData) :
            LET entries == EntriesOf(calc.hotStocks, calc.imoexData, k)
                day == calc.imoexData[k][2]
                kept == {secId \in MapKeys(day) :
                            WindowAverage(calc.imoexData, secId) # 0}
            IN /\ {entries[n].secId : n \in 1..Len(entries)} = kept
               /\ Len(entries) = Cardinality(kept)
               /\ \A n \in 1..Len(entries) :
                     LET volume == MapGet(day, entries[n].secId).volume
                         average == WindowAverage(calc.imoexData, entries[n].secId)
                     IN entries[n].ratio * 10 <= ((100 * volume) \div average) + 5
                        /\ ((100 * volume) \div average) + 5 < (entries[n].ratio + 1) * 10

\* Volumes 100 and 400 over two days: average 250, ratios 0.4 and 1.6, both
\* listed; a security whose volumes are all 0 is listed nowhere.
C10_Witness ==
    /\ calc.stage = "done"
    /\ \A k \in 1..2 : MapHas(calc.imoexData[k][2], "AAA")
    /\ \A k \in 1..2 : MapHas(calc.hotStocks, calc.imoexData[k][1])
    /\ MapGet(calc.imoexData[1][2], "AAA").volume = 100
    /\ MapGet(calc.imoexData[2][2], "AAA").volume = 400
    /\ MapGet(calc.averageVolume, "AAA").average = 250
    /\ MapHas(calc.averageVolume, "BBB")
    /\ MapGet(calc.averageVolume, "BBB").average = 0
    /\ MapGet(calc.hotStocks, calc.imoexData[1][1]) =
         <<[secId |-> "AAA", ratio |-> 4, turnover |-> 2]>>
    /\ MapGet(calc.hotStocks, calc.imoexData[2][1]) =
         <<[secId |-> "AAA", ratio |-> 16, turnover |-> 8]>>

-----------------------------------------------------------------------------
(* Properties of divideBigInt (SpecRatio).                                 *)

\* C11: divideBigInt is scale-invariant: divideBigInt(k * a, k * b) is
\* divideBigInt(a, b), for small and for large a.
C11_ScaleInvariant ==
    ratioCall.stage = "done" => ratioCall.rk = ratioCall.r

\* 1/3 and 3/9 both give 0.3.
C11_Witness ==
    /\ ratioCall.stage = "done"
    /\ ratioCall.k = 3
    /\ ratioCall.a = <<1>> /\ ratioCall.b = <<3>>
    /\ ratioCall.r = <<3>> /\ ratioCall.rk = <<3>>

\* floor((floor(100 * a / b) + 5) / 10)
TenthsOfQuotient(a, b) ==
    BigDiv(BigAdd(BigDiv(BigMulSmall(a, 100), b), <<5>>), <<10>>)

\* a / b rounded half-up to one decimal digit, in tenths:
\* floor((20 * a + b) / (2 * b))
TenthsHalfUp(a, b) ==
    BigDiv(BigAdd(BigMulSmall(a, 20), b), BigMulSmall(b, 2))

\* C12 (as claimed): for every a and b, divideBigInt(a, b) in tenths is
\* floor((floor(100 * a / b) + 5) / 10).
C12_RoundedQuotient ==
    ratioCall.stage = "done" => ratioCall.r = TenthsOfQuotient(ratioCall.a, ratioCall.b)

\* C12 (amended): when floor(100 * a / b) is below 5 * 2^50,
\* divideBigInt(a, b) in tenths is floor((floor(100 * a / b) + 5) / 10),
\* which is a / b rounded half-up to one decimal digit.
\* divideBigInt(150, 100) is 1.5 and divideBigInt(1, 3) is 0.3.
C12_RoundedQuotientOfDouble ==
    ratioCall.stage = "done"
    => /\ BigCmp(BigDiv(BigMulSmall(ratioCall.a, 100), ratioCall.b), RatioLarge) < 0
          => /\ ratioCall.r = TenthsOfQuotient(ratioCall.a, ratioCall.b)
             /\ ratioCall.r = TenthsHalfUp(ratioCall.a, ratioCall.b)
       /\ ratioCall.a = BigInt(150) /\ ratioCall.b = BigInt(100)
          => ratioCall.r = BigInt(15)
       /\ ratioCall.a = BigInt(1) /\ ratioCall.b = BigInt(3)
          => ratioCall.r = BigInt(3)

\* A quotient ending in 5 just below 5 * 2^50, rounded up.
C12_Witness ==
    /\ ratioCall.stage = "done"
    /\ ratioCall.a = BigSub(RatioLarge, <<5>>)
    /\ ratioCall.b = <<100>>
    /\ ratioCall.r = BigDiv(RatioLarge, <<10>>)

=============================================================================
